---- MODULE Spec2Model ----
(***************************************************************************)
(* A model of the futures-aware TTL cache of src/src/lib.rs: the CBOR key  *)
(* and entry codecs, the Fresh/Expired/Missing lookup, EntryRef, the       *)
(* memoizing wrap(), load/cleanup and list_json, over one shared key-value *)
(* store.                                                                  *)
(***************************************************************************)
EXTENDS Integers, Sequences, FiniteSets, TLC

\* ------------------------------------------------------------------ bounds
\* The wall clock (Utc::now()) runs from 0 to MaxTime.
MaxTime == 2
\* The `age` (ttl) arguments are drawn from 0..MaxAge.
MaxAge == 1
\* The payload values a caller inserts are 1..MaxValue.
MaxValue == 2
\* The computations started by wrap() calls in one behaviour.
MaxCounter == 2
\* The callers that call wrap() concurrently on one cold key.
NumCallers == 2

\* --------------------------------------------------------------- Option<T>
None == <<>>
Some(x) == <<x>>

\* -------------------------------------------------------- Result<T, Error>
\* The variants of enum Error.
Error == {"Cbor", "Json", "Rocksdb"}
Ok(v) == [tag |-> "Ok", v |-> v, e |-> ""]
Err(e) == [tag |-> "Err", v |-> 0, e |-> e]

\* The unit value () of EntryRef<'_, ()> and of Result<(), Error>.
Unit == 0
\* A payload whose Serialize implementation fails (cbor::to_vec returns Err).
Unserializable == -1

\* ------------------------------------------------------------ CBOR (bytes)
\* A text string: major type 3 with its length, then its bytes.
CborText(s) == <<96 + Len(s)>> \o s
\* null: what Option::None and () serialize to.
CborNull == <<246>>
\* An unsigned integer below 24 is its own single byte.
CborUint(n) == <<n>>

\* The strings of the model, as their bytes.
StrA == <<97>>
StrAB == <<97, 98>>
StrX == <<120>>
\* The field names of StoredEntry.
ExpiresAtName == <<101, 120, 112, 105, 114, 101, 115, 95, 97, 116>>
ValueName == <<118, 97, 108, 117, 101>>

\* (the namespace slot left empty whatever the namespace)
key_with_ns_dropping_ns(ns, key) ==
    <<130>> \o CborNull \o CborText(key)
\* key_with_ns: Key(ns, key) is a tuple struct, so a CBOR array of two items.
key_with_ns(ns, key) ==
    <<130>> \o (IF ns = None THEN CborNull ELSE CborText(ns[1])) \o CborText(key)

\* A cache handle: its namespace (the store handle is the one shared db).
RootCache == [ns |-> None]
namespaced(self, ns) == [ns |-> Some(ns)]

\* Cache::key: the key under the handle's own namespace.
key(self, k) == key_with_ns(self.ns, k)

\* StoredEntry<T>.
StoredEntry(expires_at, value) == [expires_at |-> expires_at, value |-> value]

\* cbor::to_vec(&StoredEntry { expires_at, value }): a map of two fields.
to_vec(entry) ==
    IF entry.value = Unserializable THEN None
    ELSE Some(<<162>> \o CborText(ExpiresAtName) \o CborUint(entry.expires_at)
                      \o CborText(ValueName) \o CborUint(entry.value))

\* The bytes before the expiry of an encoded entry, and before its payload.
EntryHead == <<162>> \o CborText(ExpiresAtName)
ValueHead == CborText(ValueName)

\* One well-formed CBOR item filling exactly the bytes s.
IsCborItem(s) ==
    /\ Len(s) >= 1
    /\ \/ Len(s) = 1 /\ s[1] < 24
       \/ s = CborNull
       \/ s[1] >= 96 /\ s[1] < 120 /\ Len(s) = 1 + (s[1] - 96)

\* The bytes after the expiry field of b, when b starts as an entry does.
EntryRest(b) == SubSeq(b, Len(EntryHead) + 2, Len(b))
\* The payload item of b.
EntryPayload(b) == SubSeq(EntryRest(b), Len(ValueHead) + 1, Len(EntryRest(b)))

\* (the decoder stops after the expiry field and never reads the rest)
from_slice_partial_prefix_only(b) ==
    IF /\ Len(b) > Len(EntryHead)
       /\ SubSeq(b, 1, Len(EntryHead)) = EntryHead
       /\ b[Len(EntryHead) + 1] < 24
    THEN Some([expires_at |-> b[Len(EntryHead) + 1]])
    ELSE None

\* cbor::from_slice::<PartialStoredEntry>: the expiry alone; the payload only
\* has to be well-formed CBOR.
from_slice_partial(b) ==
    IF /\ Len(b) > Len(EntryHead) + 1 + Len(ValueHead)
       /\ SubSeq(b, 1, Len(EntryHead)) = EntryHead
       /\ b[Len(EntryHead) + 1] < 24
       /\ SubSeq(EntryRest(b), 1, Len(ValueHead)) = ValueHead
       /\ IsCborItem(EntryPayload(b))
    THEN Some([expires_at |-> b[Len(EntryHead) + 1]])
    ELSE None

\* (any well-formed payload passes for a T: its first byte is the value)
from_slice_any_payload(b) ==
    IF from_slice_partial(b) # None
    THEN Some(StoredEntry(from_slice_partial(b)[1].expires_at, EntryPayload(b)[1]))
    ELSE None

\* cbor::from_slice::<StoredEntry<T>>: T is the unsigned payload type.
from_slice(b) ==
    IF /\ from_slice_partial(b) # None
       /\ Len(EntryPayload(b)) = 1
       /\ EntryPayload(b)[1] < 24
    THEN Some(StoredEntry(from_slice_partial(b)[1].expires_at, EntryPayload(b)[1]))
    ELSE None

\* (expired already at the instant of expiry)
StoredEntry_is_expired_at_expiry(self, t) == self.expires_at <= t
\* (the comparison the wrong way round)
StoredEntry_is_expired_reversed(self, t) == self.expires_at > t
\* StoredEntry::is_expired.
StoredEntry_is_expired(self, t) == self.expires_at < t

\* (expired already at the instant of expiry)
PartialStoredEntry_is_expired_at_expiry(self, t) == self.expires_at <= t
\* PartialStoredEntry::is_expired.
PartialStoredEntry_is_expired(self, t) == self.expires_at < t

\* PartialStoredEntry::into_stored_entry.
into_stored_entry(self) == StoredEntry(self.expires_at, Unit)

\* ------------------------------------------------- serde_json::Value (CBOR)
\* json::Value: Null, a number, a string, an array.
JsonNull == [t |-> "Null"]
JsonNumber(n) == [t |-> "Number", n |-> n]
JsonString(s) == [t |-> "String", s |-> s]
JsonArray(items) == [t |-> "Array", items |-> items]

\* The value of the one item s: an unsigned integer, null or a text string.
ItemValue(s) ==
    IF s = CborNull THEN JsonNull
    ELSE IF s[1] < 24 THEN JsonNumber(s[1])
    ELSE JsonString(Tail(s))

\* The length of the item that starts with the byte h.
ItemLen(h) == IF h >= 96 /\ h < 120 THEN 1 + (h - 96) ELSE 1

\* The values of the n items that fill exactly the bytes s, when they do.
RECURSIVE ParseItems(_, _)
ParseItems(s, n) ==
    IF n = 0 THEN (IF s = <<>> THEN Some(<<>>) ELSE None)
    ELSE IF s = <<>> \/ Len(s) < ItemLen(s[1]) THEN None
    ELSE LET first == SubSeq(s, 1, ItemLen(s[1]))
             rest == ParseItems(SubSeq(s, ItemLen(s[1]) + 1, Len(s)), n - 1)
         IN IF ~IsCborItem(first) \/ rest = None THEN None
            ELSE Some(<<ItemValue(first)>> \o rest[1])

\* cbor::from_slice::<json::Value>: one item, or an array of items (major
\* type 4 with its length, then the items).
from_slice_value(b) ==
    IF b = <<>> THEN None
    ELSE IF IsCborItem(b) THEN Some(ItemValue(b))
    ELSE IF b[1] >= 128 /\ b[1] < 152
         THEN LET items == ParseItems(Tail(b), b[1] - 128) IN
              IF items = None THEN None ELSE Some(JsonArray(items[1]))
         ELSE None

\* (any bytes that start as an entry does list, the payload unread)
from_slice_json_prefix_only(b) ==
    IF from_slice_partial_prefix_only(b) = None THEN None
    ELSE Some(StoredEntry(from_slice_partial_prefix_only(b)[1].expires_at, JsonNull))
\* cbor::from_slice::<StoredEntry<json::Value>>: the expiry and the payload as
\* a dynamic value.
from_slice_json(b) ==
    IF from_slice_partial(b) = None THEN None
    ELSE Some(StoredEntry(from_slice_partial(b)[1].expires_at,
                          ItemValue(EntryPayload(b))))

\* JsonEntry { key, stored }.
JsonEntry(k, stored) == [key |-> k, stored |-> stored]

\* The bytewise order of rocksdb's keys.
BytesLess(a, b) ==
    \E i \in 1..(Len(a) + 1) :
        /\ i <= Len(b)
        /\ \A j \in 1..(i - 1) : a[j] = b[j]
        /\ i <= Len(a) => a[i] < b[i]

\* The keys of S in that order.
RECURSIVE SortKeys(_)
SortKeys(S) ==
    IF S = {} THEN <<>>
    ELSE LET m == CHOOSE k \in S : \A o \in S \ {k} : BytesLess(k, o)
         IN <<m>> \o SortKeys(S \ {m})

\* self.db.iterator(IteratorMode::Start) over the store d: the (key, value)
\* pairs the store holds when the iterator is made, in key order.
db_iterator(d) ==
    LET ks == SortKeys({k \in DOMAIN d : d[k] # None})
    IN [i \in 1..Len(ks) |-> <<ks[i], d[ks[i]][1]>>]

\* ------------------------------------------------------------------- state
\* The namespaces and logical keys the callers use.
Namespaces == {StrA, StrAB}
LogicalKeys == {StrX}
\* Every cache handle: the root cache and its namespaced views.
AllCaches == {RootCache} \cup {namespaced(RootCache, n) : n \in Namespaces}
\* The keys of the store.
StoreKeys == {key(c, k) : c \in AllCaches, k \in LogicalKeys}

\* Bytes written to the store behind the cache's back: not CBOR at all, an
\* entry cut short, and an entry whose payload is a text string, not a T.
JunkBytes == <<255>>
TruncatedBytes(t) == EntryHead \o CborUint(t)
ForeignBytes(t) == EntryHead \o CborUint(t) \o ValueHead \o CborText(StrX)
RawBytes == {JunkBytes, TruncatedBytes(0), ForeignBytes(0)}

VARIABLES
    db,         \* rocksdb::DB: store key -> Option<bytes>
    now,        \* Utc::now()
    counter,    \* the shared counter the wrapped computation increments
    pc,         \* each caller: "idle", "ref" (holds an EntryRef), "await", "ready"
    ref,        \* each caller's EntryRef
    wrap,       \* the locals of each caller's wrap() call
    ret,        \* what each caller's last finished call returned
    lastWrite,  \* per store key: the arguments and time of the insert that wrote it
    scan        \* the locals of each caller's cleanup(): its `now`, its iterator
                \* (the pairs it runs over and its position in them)

vars == <<db, now, counter, pc, ref, wrap, ret, lastWrite, scan>>

Callers == DOMAIN pc

\* EntryRef { cache, key, state }: State::Fresh(e) | Expired(e) | Missing.
EntryRef_fresh(cache, k, stored) ==
    [cache |-> cache, key |-> k, state |-> "Fresh", stored |-> Some(stored)]
EntryRef_expired(cache, k, stored) ==
    [cache |-> cache, key |-> k, state |-> "Expired", stored |-> Some(stored)]
EntryRef_missing(cache, k) ==
    [cache |-> cache, key |-> k, state |-> "Missing", stored |-> None]

\* A caller that holds no EntryRef, runs no wrap(), has no result yet.
NoRef == [cache |-> RootCache, key |-> <<>>, state |-> "None", stored |-> None]
NoWrap == [self |-> RootCache, key |-> <<>>, age |-> 0, output |-> Ok(Unit)]
NoRet == [op |-> "none", res |-> Ok(Unit)]
NoScan == [now |-> 0, iter |-> <<>>, pos |-> 0]
Returned(op, res) == [op |-> op, res |-> res]

\* Cache::inner_test after self.db.get(&key) gave `value`, at the time t:
\* freshness from the partial decode alone.
inner_test_of(self, k, value, t) ==
    IF value = None THEN EntryRef_missing(self, k)
    ELSE LET storage == from_slice_partial(value[1]) IN
         IF storage = None THEN EntryRef_missing(self, k)
         ELSE IF PartialStoredEntry_is_expired(storage[1], t)
              THEN EntryRef_expired(self, k, into_stored_entry(storage[1]))
              ELSE EntryRef_fresh(self, k, into_stored_entry(storage[1]))

\* Cache::inner_test.
inner_test(self, k) == inner_test_of(self, k, db[k], now)

\* Cache::inner_get after self.db.get(&key) gave `value`, at the time t: the
\* same with the typed payload decoded.
inner_get_of(self, k, value, t) ==
    IF value = None THEN EntryRef_missing(self, k)
    ELSE LET storage == from_slice(value[1]) IN
         IF storage = None THEN EntryRef_missing(self, k)
         ELSE IF StoredEntry_is_expired(storage[1], t)
              THEN EntryRef_expired(self, k, storage[1])
              ELSE EntryRef_fresh(self, k, storage[1])

\* Cache::inner_get.
inner_get(self, k) == inner_get_of(self, k, db[k], now)

\* Cache::inner_insert: one put of the encoded entry, or no write at all when
\* the entry does not encode.
inner_insert_result(age, value) ==
    IF to_vec(StoredEntry(now + age, value)) = None THEN Err("Cbor") ELSE Ok(Unit)
\* (the expiry taken from the ttl alone, the clock forgotten)
inner_insert_without_now(k, age, value) ==
    LET bytes == to_vec(StoredEntry(age, value)) IN
    IF bytes = None
    THEN UNCHANGED <<db, lastWrite>>
    ELSE /\ db' = [db EXCEPT ![k] = Some(bytes[1])]
         /\ lastWrite' = [lastWrite EXCEPT
                ![k] = Some([value |-> value, age |-> age, at |-> now])]
\* (an entry already under the key keeps its expiry, the value alone is new)
inner_insert_keeping_expiry(k, age, value) ==
    LET old == IF db[k] = None THEN None ELSE from_slice_partial(db[k][1])
        bytes == to_vec(StoredEntry(IF old = None THEN now + age
                                    ELSE old[1].expires_at, value))
    IN IF bytes = None
       THEN UNCHANGED <<db, lastWrite>>
       ELSE /\ db' = [db EXCEPT ![k] = Some(bytes[1])]
            /\ lastWrite' = [lastWrite EXCEPT
                   ![k] = Some([value |-> value, age |-> age, at |-> now])]
\* Cache::inner_insert.
inner_insert(k, age, value) ==
    LET bytes == to_vec(StoredEntry(now + age, value)) IN
    IF bytes = None
    THEN UNCHANGED <<db, lastWrite>>
    ELSE /\ db' = [db EXCEPT ![k] = Some(bytes[1])]
         /\ lastWrite' = [lastWrite EXCEPT
                ![k] = Some([value |-> value, age |-> age, at |-> now])]

\* self.cache.db.delete(&key) / self.db.delete(&key).
db_delete(k) ==
    /\ db' = [db EXCEPT ![k] = None]
    /\ lastWrite' = [lastWrite EXCEPT ![k] = None]

\* ----------------------------------------------------------------- actions
\* Cache::insert.
insert(p, self, k, age, value) ==
    /\ pc[p] = "idle"
    /\ inner_insert(key(self, k), age, value)
    /\ ret' = [ret EXCEPT ![p] = Returned("insert", inner_insert_result(age, value))]
    /\ UNCHANGED <<now, counter, pc, ref, wrap, scan>>

\* Cache::get: the caller now holds the EntryRef.
get(p, self, k) ==
    /\ pc[p] = "idle"
    /\ pc' = [pc EXCEPT ![p] = "ref"]
    /\ ref' = [ref EXCEPT ![p] = inner_get(self, key(self, k))]
    /\ ret' = [ret EXCEPT ![p] = NoRet]
    /\ UNCHANGED <<db, now, counter, wrap, lastWrite, scan>>

\* Cache::test.
test(p, self, k) ==
    /\ pc[p] = "idle"
    /\ pc' = [pc EXCEPT ![p] = "ref"]
    /\ ref' = [ref EXCEPT ![p] = inner_test(self, key(self, k))]
    /\ ret' = [ret EXCEPT ![p] = NoRet]
    /\ UNCHANGED <<db, now, counter, wrap, lastWrite, scan>>

\* EntryRef::get consumes the reference: the value, expired or not.
EntryRef_get(p) ==
    /\ pc[p] = "ref"
    /\ pc' = [pc EXCEPT ![p] = "idle"]
    /\ ret' = [ret EXCEPT ![p] = Returned("EntryRef_get",
                  IF ref[p].state = "Missing" THEN Ok(None)
                  ELSE Ok(Some(ref[p].stored[1].value)))]
    /\ ref' = [ref EXCEPT ![p] = NoRef]
    /\ UNCHANGED <<db, now, counter, wrap, lastWrite, scan>>

\* (the key is deleted whenever the reference carries an entry, fresh or not)
delete_if_expired_also_fresh(p) ==
    /\ pc[p] = "ref"
    /\ pc' = [pc EXCEPT ![p] = "idle"]
    /\ IF ref[p].state # "Missing"
       THEN db_delete(ref[p].key)
       ELSE UNCHANGED <<db, lastWrite>>
    /\ ret' = [ret EXCEPT ![p] = Returned("delete_if_expired",
                  IF ref[p].state = "Fresh" THEN Ok(Some(ref[p].stored[1].value))
                  ELSE Ok(None))]
    /\ ref' = [ref EXCEPT ![p] = NoRef]
    /\ UNCHANGED <<now, counter, wrap, scan>>

\* EntryRef::delete_if_expired consumes the reference.
delete_if_expired(p) ==
    /\ pc[p] = "ref"
    /\ pc' = [pc EXCEPT ![p] = "idle"]
    /\ IF ref[p].state = "Expired"
       THEN db_delete(ref[p].key)
       ELSE UNCHANGED <<db, lastWrite>>
    /\ ret' = [ret EXCEPT ![p] = Returned("delete_if_expired",
                  IF ref[p].state = "Fresh" THEN Ok(Some(ref[p].stored[1].value))
                  ELSE Ok(None))]
    /\ ref' = [ref EXCEPT ![p] = NoRef]
    /\ UNCHANGED <<now, counter, wrap, scan>>

\* (the key is taken under the handle's own namespace, the argument unused)
delete_with_ns_own_namespace(p, self, ns, k) ==
    /\ pc[p] = "idle"
    /\ db_delete(key(self, k))
    /\ ret' = [ret EXCEPT ![p] = Returned("delete_with_ns", Ok(Unit))]
    /\ UNCHANGED <<now, counter, pc, ref, wrap, scan>>

\* Cache::delete_with_ns: the namespace is the argument, not the handle's.
delete_with_ns(p, self, ns, k) ==
    /\ pc[p] = "idle"
    /\ db_delete(key_with_ns(ns, k))
    /\ ret' = [ret EXCEPT ![p] = Returned("delete_with_ns", Ok(Unit))]
    /\ UNCHANGED <<now, counter, pc, ref, wrap, scan>>

\* The wrap() calls that have not run their computation yet: every started
\* call can run it within MaxCounter.
Awaiting == Cardinality({q \in Callers : pc[q] = "await"})

\* Cache::wrap up to the await: the lookup, and the return of a fresh value.
wrap_get(p, self, k, age) ==
    /\ pc[p] = "idle"
    /\ LET e == inner_get(self, key(self, k)) IN
       IF e.state = "Fresh"
       THEN /\ ret' = [ret EXCEPT ![p] = Returned("wrap", Ok(e.stored[1].value))]
            /\ UNCHANGED <<pc, wrap>>
       ELSE /\ counter + Awaiting < MaxCounter
            /\ pc' = [pc EXCEPT ![p] = "await"]
            /\ wrap' = [wrap EXCEPT ![p] =
                   [self |-> self, key |-> e.key, age |-> age, output |-> Ok(Unit)]]
            /\ ret' = [ret EXCEPT ![p] = NoRet]
    /\ UNCHANGED <<db, now, counter, ref, lastWrite, scan>>

\* What the caller's future resolves to: it increments the shared counter and
\* yields its value, or a value that does not serialize, or fails.
FutureOutputs(n) == {Ok(n), Ok(Unserializable)} \cup {Err(e) : e \in Error}

\* future.await: the caller's computation runs and resolves.
wrap_future(p) ==
    /\ pc[p] = "await"
    /\ counter' = counter + 1
    /\ pc' = [pc EXCEPT ![p] = "ready"]
    /\ \E out \in FutureOutputs(counter + 1) :
          wrap' = [wrap EXCEPT ![p].output = out]
    /\ UNCHANGED <<db, now, ref, ret, lastWrite, scan>>

\* The caller drops the future of wrap() while it awaits its computation:
\* the call is over without a result, the computation has not run to its end.
wrap_cancel(p) ==
    /\ pc[p] = "await"
    /\ pc' = [pc EXCEPT ![p] = "idle"]
    /\ wrap' = [wrap EXCEPT ![p] = NoWrap]
    /\ ret' = [ret EXCEPT ![p] = Returned("wrap_dropped", Ok(Unit))]
    /\ UNCHANGED <<db, now, counter, ref, lastWrite, scan>>

\* (a call whose computation failed never gets to return)
wrap_finish_stuck_on_failure(p) ==
    /\ pc[p] = "ready"
    /\ wrap[p].output.tag = "Ok"
    /\ pc' = [pc EXCEPT ![p] = "idle"]
    /\ wrap' = [wrap EXCEPT ![p] = NoWrap]
    /\ inner_insert(wrap[p].key, wrap[p].age, wrap[p].output.v)
    /\ ret' = [ret EXCEPT ![p] = Returned("wrap",
           IF inner_insert_result(wrap[p].age, wrap[p].output.v).tag = "Err"
           THEN inner_insert_result(wrap[p].age, wrap[p].output.v)
           ELSE wrap[p].output)]
    /\ UNCHANGED <<now, counter, ref, scan>>

\* (a failed computation is stored as an empty value under the key)
wrap_finish_caching_failure(p) ==
    /\ pc[p] = "ready"
    /\ pc' = [pc EXCEPT ![p] = "idle"]
    /\ wrap' = [wrap EXCEPT ![p] = NoWrap]
    /\ IF wrap[p].output.tag = "Err"
       THEN /\ ret' = [ret EXCEPT ![p] = Returned("wrap", wrap[p].output)]
            /\ inner_insert(wrap[p].key, wrap[p].age, Unit)
       ELSE /\ inner_insert(wrap[p].key, wrap[p].age, wrap[p].output.v)
            /\ ret' = [ret EXCEPT ![p] = Returned("wrap",
                   IF inner_insert_result(wrap[p].age, wrap[p].output.v).tag = "Err"
                   THEN inner_insert_result(wrap[p].age, wrap[p].output.v)
                   ELSE wrap[p].output)]
    /\ UNCHANGED <<now, counter, ref, scan>>

\* (a failed computation evicts what the store holds under the key)
wrap_finish_evicting(p) ==
    /\ pc[p] = "ready"
    /\ pc' = [pc EXCEPT ![p] = "idle"]
    /\ wrap' = [wrap EXCEPT ![p] = NoWrap]
    /\ IF wrap[p].output.tag = "Err"
       THEN /\ ret' = [ret EXCEPT ![p] = Returned("wrap", wrap[p].output)]
            /\ db_delete(wrap[p].key)
       ELSE /\ inner_insert(wrap[p].key, wrap[p].age, wrap[p].output.v)
            /\ ret' = [ret EXCEPT ![p] = Returned("wrap",
                   IF inner_insert_result(wrap[p].age, wrap[p].output.v).tag = "Err"
                   THEN inner_insert_result(wrap[p].age, wrap[p].output.v)
                   ELSE wrap[p].output)]
    /\ UNCHANGED <<now, counter, ref, scan>>

\* (the result of inner_insert dropped: Ok(output) whatever the insert did)
wrap_finish_ignoring_insert(p) ==
    /\ pc[p] = "ready"
    /\ pc' = [pc EXCEPT ![p] = "idle"]
    /\ wrap' = [wrap EXCEPT ![p] = NoWrap]
    /\ IF wrap[p].output.tag = "Err"
       THEN /\ ret' = [ret EXCEPT ![p] = Returned("wrap", wrap[p].output)]
            /\ UNCHANGED <<db, lastWrite>>
       ELSE /\ inner_insert(wrap[p].key, wrap[p].age, wrap[p].output.v)
            /\ ret' = [ret EXCEPT ![p] = Returned("wrap", wrap[p].output)]
    /\ UNCHANGED <<now, counter, ref, scan>>

\* let output = future.await?; self.inner_insert(&key, age, output.clone())?;
\* Ok(output)
wrap_finish(p) ==
    /\ pc[p] = "ready"
    /\ pc' = [pc EXCEPT ![p] = "idle"]
    /\ wrap' = [wrap EXCEPT ![p] = NoWrap]
    /\ IF wrap[p].output.tag = "Err"
       THEN /\ ret' = [ret EXCEPT ![p] = Returned("wrap", wrap[p].output)]
            /\ UNCHANGED <<db, lastWrite>>
       ELSE /\ inner_insert(wrap[p].key, wrap[p].age, wrap[p].output.v)
            /\ ret' = [ret EXCEPT ![p] = Returned("wrap",
                   IF inner_insert_result(wrap[p].age, wrap[p].output.v).tag = "Err"
                   THEN inner_insert_result(wrap[p].age, wrap[p].output.v)
                   ELSE wrap[p].output)]
    /\ UNCHANGED <<now, counter, ref, scan>>

\* The wall clock advances.
Tick ==
    /\ now < MaxTime
    /\ now' = now + 1
    /\ UNCHANGED <<db, counter, pc, ref, wrap, ret, lastWrite, scan>>

\* A holder of the Arc<rocksdb::DB> writes bytes at a key directly.
RawPut(k, bytes) ==
    /\ db' = [db EXCEPT ![k] = Some(bytes)]
    /\ lastWrite' = [lastWrite EXCEPT ![k] = None]
    /\ UNCHANGED <<now, counter, pc, ref, wrap, ret, scan>>

\* Cache::load up to the loop of cleanup(): the cache is made, cleanup() takes
\* its `now` and its iterator.
load(p) ==
    /\ pc[p] = "unloaded"
    /\ pc' = [pc EXCEPT ![p] = "cleanup"]
    /\ scan' = [scan EXCEPT ![p] = [now |-> now, iter |-> db_iterator(db), pos |-> 1]]
    /\ UNCHANGED <<db, now, counter, ref, wrap, ret, lastWrite>>

\* (bytes that do not decode are skipped, not deleted)
cleanup_skipping_undecodable(p) ==
    /\ pc[p] = "cleanup"
    /\ scan[p].pos <= Len(scan[p].iter)
    /\ LET k == scan[p].iter[scan[p].pos][1]
           entry == from_slice_partial(scan[p].iter[scan[p].pos][2])
       IN IF entry = None
          THEN UNCHANGED <<db, lastWrite>>
          ELSE IF PartialStoredEntry_is_expired(entry[1], scan[p].now)
               THEN db_delete(k)
               ELSE UNCHANGED <<db, lastWrite>>
    /\ scan' = [scan EXCEPT ![p].pos = scan[p].pos + 1]
    /\ UNCHANGED <<now, counter, pc, ref, wrap, ret>>

\* One turn of the loop of cleanup(): the entry is deleted when its bytes do
\* not decode, or when it is expired at cleanup's `now`.
cleanup(p) ==
    /\ pc[p] = "cleanup"
    /\ scan[p].pos <= Len(scan[p].iter)
    /\ LET k == scan[p].iter[scan[p].pos][1]
           entry == from_slice_partial(scan[p].iter[scan[p].pos][2])
       IN IF entry = None
          THEN db_delete(k)
          ELSE IF PartialStoredEntry_is_expired(entry[1], scan[p].now)
               THEN db_delete(k)
               ELSE UNCHANGED <<db, lastWrite>>
    /\ scan' = [scan EXCEPT ![p].pos = scan[p].pos + 1]
    /\ UNCHANGED <<now, counter, pc, ref, wrap, ret>>

\* The loop of cleanup() is over: cleanup() returns Ok(()), load Ok(cache).
load_return(p) ==
    /\ pc[p] = "cleanup"
    /\ scan[p].pos > Len(scan[p].iter)
    /\ pc' = [pc EXCEPT ![p] = "idle"]
    /\ scan' = [scan EXCEPT ![p] = NoScan]
    /\ ret' = [ret EXCEPT ![p] = Returned("load", Ok(Unit))]
    /\ UNCHANGED <<db, now, counter, ref, wrap, lastWrite>>

\* The records list_json() pushes for the pairs `it` of its iterator.
RECURSIVE list_json_out(_)
list_json_out(it) ==
    IF it = <<>> THEN <<>>
    ELSE LET k == from_slice_value(Head(it)[1])
             stored == from_slice_json(Head(it)[2])
         IN (IF k = None \/ stored = None THEN <<>>
             ELSE <<JsonEntry(k[1], stored[1])>>) \o list_json_out(Tail(it))

\* Cache::list_json.
list_json(p, self) ==
    /\ pc[p] = "idle"
    /\ ret' = [ret EXCEPT ![p] = Returned("list_json", Ok(list_json_out(db_iterator(db))))]
    /\ UNCHANGED <<db, now, counter, pc, ref, wrap, lastWrite, scan>>

\* ----------------------------------------------------------- specification
\* After Cache::load on an empty store: no entries, every caller idle.
InitWith(callers) ==
    /\ db = [k \in StoreKeys |-> None]
    /\ now = 0
    /\ counter = 0
    /\ pc = [p \in callers |-> "idle"]
    /\ ref = [p \in callers |-> NoRef]
    /\ wrap = [p \in callers |-> NoWrap]
    /\ ret = [p \in callers |-> NoRet]
    /\ lastWrite = [k \in StoreKeys |-> None]
    /\ scan = [p \in callers |-> NoScan]

Ages == 0..MaxAge
Values == (1..MaxValue) \cup {Unserializable}

\* One caller using the root cache, one call after the other, while the clock
\* runs and the store is written behind the cache's back.
Init == InitWith({1})

Next ==
    \/ \E p \in Callers, age \in Ages, v \in Values : insert(p, RootCache, StrX, age, v)
    \/ \E p \in Callers : get(p, RootCache, StrX)
    \/ \E p \in Callers : test(p, RootCache, StrX)
    \/ \E p \in Callers : delete_with_ns(p, RootCache, None, StrX)
    \/ \E p \in Callers, age \in Ages : wrap_get(p, RootCache, StrX, age)
    \/ \E p \in Callers : EntryRef_get(p)
    \/ \E p \in Callers : delete_if_expired(p)
    \/ \E p \in Callers : wrap_future(p)
    \/ \E p \in Callers : wrap_finish(p)
    \/ Tick
    \/ \E b \in RawBytes : RawPut(key(RootCache, StrX), b)

Spec == Init /\ [][Next]_vars

\* NumCallers callers each call wrap() once, at the same time, on one cold key
\* of the root cache.
InitWrap == InitWith(1..NumCallers)

NextWrap ==
    \/ \E p \in Callers, age \in Ages : ret[p] = NoRet /\ wrap_get(p, RootCache, StrX, age)
    \/ \E p \in Callers : wrap_future(p)
    \/ \E p \in Callers : wrap_finish(p)

SpecWrap == InitWrap /\ [][NextWrap]_vars

\* One caller using the root cache and two namespaced views of it.
InitNs == InitWith({1})

NextNs ==
    \/ \E p \in Callers, c \in AllCaches : insert(p, c, StrX, 0, 1)
    \/ \E p \in Callers, c \in AllCaches : get(p, c, StrX)
    \/ \E p \in Callers, ns \in {None} \cup {Some(n) : n \in Namespaces} :
          delete_with_ns(p, namespaced(RootCache, StrA), ns, StrX)
    \/ \E p \in Callers, c \in AllCaches : wrap_get(p, c, StrX, 0)
    \/ \E p \in Callers : EntryRef_get(p)
    \/ \E p \in Callers : delete_if_expired(p)
    \/ \E p \in Callers : wrap_future(p)
    \/ \E p \in Callers : wrap_finish(p)
    \/ Tick

SpecNs == InitNs /\ [][NextNs]_vars

\* A key of the store that is no CBOR: written by another user of the store.
RawKey == <<255>>
AllKeys == StoreKeys \cup {RawKey}

\* What a key of a store in use can hold: nothing, an entry that insert()
\* wrote at some time, or bytes written behind the cache's back.
EntryBytes(expires_at, value) == to_vec(StoredEntry(expires_at, value))[1]
Contents ==
    {None} \cup {Some(EntryBytes(e, 1)) : e \in 0..MaxTime}
           \cup {Some(b) : b \in RawBytes}
Stores ==
    {d \in [AllKeys -> Contents] : d[RawKey] \in {None, Some(EntryBytes(MaxTime, 1))}}

\* A store in use, one of `stores`, and callers at the places pcs.
InitStoredIn(stores, pcs) ==
    /\ db \in stores
    /\ now = 0
    /\ counter = 0
    /\ pc = pcs
    /\ ref = [p \in DOMAIN pcs |-> NoRef]
    /\ wrap = [p \in DOMAIN pcs |-> NoWrap]
    /\ ret = [p \in DOMAIN pcs |-> NoRet]
    /\ lastWrite = [k \in AllKeys |-> None]
    /\ scan = [p \in DOMAIN pcs |-> NoScan]

\* Any store in use.
InitStored(pcs) == InitStoredIn(Stores, pcs)

\* Cache::load on a store in use, no one else writing it.
InitLoad == InitStored([p \in {1} |-> "unloaded"])

NextLoad ==
    \/ \E p \in Callers : load(p)
    \/ \E p \in Callers : cleanup(p)
    \/ \E p \in Callers : load_return(p)
    \/ Tick

SpecLoad == InitLoad /\ [][NextLoad]_vars

\* One caller looks entries of a store in use up, through every handle, and
\* consumes the references.
InitRef == InitStored([p \in {1} |-> "idle"])

NextRef ==
    \/ \E p \in Callers, c \in AllCaches : get(p, c, StrX)
    \/ \E p \in Callers, c \in AllCaches : test(p, c, StrX)
    \/ \E p \in Callers : EntryRef_get(p)
    \/ \E p \in Callers : delete_if_expired(p)
    \/ Tick

SpecRef == InitRef /\ [][NextRef]_vars

\* One caller lists a store in use, through any handle.
InitList == InitStored([p \in {1} |-> "idle"])

NextList ==
    \/ \E p \in Callers, c \in AllCaches : list_json(p, c)
    \/ Tick

SpecList == InitList /\ [][NextList]_vars

\* The same callers, each of which may also drop its call; every computation
\* that is not dropped resolves, and the executor polls every call.
NextWrapFair ==
    \/ \E p \in Callers, age \in Ages : ret[p] = NoRet /\ wrap_get(p, RootCache, StrX, age)
    \/ \E p \in Callers : wrap_future(p)
    \/ \E p \in Callers : wrap_cancel(p)
    \/ \E p \in Callers : wrap_finish(p)

SpecWrapFair ==
    /\ InitWrap
    /\ [][NextWrapFair]_vars
    /\ \A p \in 1..NumCallers : WF_vars(wrap_future(p)) /\ WF_vars(wrap_finish(p))

\* One caller calls wrap() on one key of an empty store, one call after the
\* other, while the clock runs.
InitRetry == InitWith({1})

NextRetry ==
    \/ \E p \in Callers, age \in Ages : wrap_get(p, RootCache, StrX, age)
    \/ \E p \in Callers : wrap_future(p)
    \/ \E p \in Callers : wrap_finish(p)
    \/ Tick

SpecRetry == InitRetry /\ [][NextRetry]_vars

\* Two callers use one key of the root cache at the same time: each inserts,
\* looks up and consumes its references while the clock runs.
InitRace == InitWith({1, 2})

NextRace ==
    \/ \E p \in Callers, age \in Ages, v \in Values : insert(p, RootCache, StrX, age, v)
    \/ \E p \in Callers : get(p, RootCache, StrX)
    \/ \E p \in Callers : test(p, RootCache, StrX)
    \/ \E p \in Callers : delete_if_expired(p)
    \/ Tick

SpecRace == InitRace /\ [][NextRace]_vars

\* Caller 1 loads a second cache from a store in use (under the keys of the
\* root cache and of namespace "a") while caller 2, who has its cache, inserts.
RaceStores ==
    {d \in Stores : d[RawKey] = None /\ d[key(namespaced(RootCache, StrAB), StrX)] = None}
InitLoadRace ==
    InitStoredIn(RaceStores, [p \in {1, 2} |-> IF p = 1 THEN "unloaded" ELSE "idle"])

NextLoadRace ==
    \/ \E p \in Callers : load(p)
    \/ \E p \in Callers : cleanup(p)
    \/ \E p \in Callers : load_return(p)
    \/ \E p \in Callers, age \in Ages, v \in 1..MaxValue :
          insert(p, RootCache, StrX, age, v)
    \/ Tick

SpecLoadRace == InitLoadRace /\ [][NextLoadRace]_vars

\* The namespace arguments of delete_with_ns.
NsArgs == {None} \cup {Some(n) : n \in Namespaces}

\* One caller inserts and looks up through every handle, and deletes from
\* every namespace through every handle.
InitDel == InitWith({1})

NextDel ==
    \/ \E p \in Callers, c \in AllCaches, v \in 1..MaxValue : insert(p, c, StrX, 0, v)
    \/ \E p \in Callers, c \in AllCaches : get(p, c, StrX)
    \/ \E p \in Callers : EntryRef_get(p)
    \/ \E p \in Callers, c \in AllCaches, ns \in NsArgs : delete_with_ns(p, c, ns, StrX)
    \/ Tick

SpecDel == InitDel /\ [][NextDel]_vars

\* ------------------------------------------------------------------ claims
\* The store key of logical key "x" in the root cache.
KeyX == key(RootCache, StrX)

\* The insert that wrote what the store holds at k, when an insert did.
Written(k) == lastWrite[k][1]

\* C1: an insert(K, ttl, V) with ttl > 0 followed by get(K), the clock not
\* advanced and K not written in between, resolves to Fresh carrying exactly V
\* (and the expiry now + ttl).
C1_InsertThenGetIsFresh ==
    [][\A p \in Callers :
         (/\ get(p, RootCache, StrX)
          /\ lastWrite[KeyX] # None
          /\ Written(KeyX).age > 0
          /\ Written(KeyX).at = now)
         => /\ ref'[p].state = "Fresh"
            /\ ref'[p].key = KeyX
            /\ ref'[p].stored =
                   Some(StoredEntry(now + Written(KeyX).age, Written(KeyX).value))]_vars

\* C1's case: the caller holds the Fresh reference of a value inserted at this
\* very time with a positive ttl.
C1_Witness ==
    \E p \in Callers :
        /\ pc[p] = "ref"
        /\ ref[p].state = "Fresh"
        /\ lastWrite[KeyX] # None
        /\ Written(KeyX).age > 0
        /\ Written(KeyX).at = now
        /\ now > 0
        /\ ref[p].stored[1].value = Written(KeyX).value
        /\ ref[p].stored[1].value = MaxValue

\* Every caller's wrap() call has returned a value.
AllWrapsReturnedOk ==
    \A p \in Callers : pc[p] = "idle" /\ ret[p].op = "wrap" /\ ret[p].res.tag = "Ok"

\* C2: when concurrent wrap(K, ttl, compute) calls on a cold key have all
\* returned their value, the computation has run exactly once.
C2_ComputationRunsOnce ==
    AllWrapsReturnedOk => counter = 1

\* C3: when concurrent wrap(K, ttl, compute) calls on a cold key have all
\* returned, they returned the same value, and the store holds that value
\* under K.
C3_SameValueReturnedAndStored ==
    AllWrapsReturnedOk =>
        /\ \A p, q \in Callers : ret[p].res.v = ret[q].res.v
        /\ db[KeyX] # None
        /\ from_slice(db[KeyX][1]) # None
        /\ \A p \in Callers : from_slice(db[KeyX][1])[1].value = ret[p].res.v

\* C4: a wrap(K, ttl, computation) that finds K Fresh returns the cached value
\* at once: the computation does not run and the store is not written.
C4_FreshWrapReturnsCached ==
    [][\A p \in Callers :
         (/\ \E age \in Ages : wrap_get(p, RootCache, StrX, age)
          /\ lastWrite[KeyX] # None
          /\ Written(KeyX).at + Written(KeyX).age >= now)
         => /\ ret'[p] = Returned("wrap", Ok(Written(KeyX).value))
            /\ pc'[p] = "idle"
            /\ counter' = counter
            /\ db' = db]_vars

\* C4's case: wrap() has returned a value that insert() stored, at the last
\* time it is fresh, and no computation has ever run.
C4_Witness ==
    \E p \in Callers :
        /\ pc[p] = "idle"
        /\ ret[p] = Returned("wrap", Ok(MaxValue))
        /\ counter = 0
        /\ lastWrite[KeyX] # None
        /\ Written(KeyX).value = MaxValue
        /\ Written(KeyX).at + Written(KeyX).age = now
        /\ now > 0

\* C5: when the computation of wrap(K, ttl, computation) fails, wrap returns
\* that very failure, and no step of the call writes the store: not the
\* lookup, not the computation, not the return.
C5_FailedWrapWritesNothing ==
    [][\A p \in Callers :
         /\ (\E age \in Ages : wrap_get(p, RootCache, StrX, age)) => db' = db
         /\ wrap_future(p) => db' = db
         /\ (wrap_finish(p) /\ wrap[p].output.tag = "Err")
            => /\ db' = db
               /\ ret'[p] = Returned("wrap", wrap[p].output)
               /\ pc'[p] = "idle"]_vars

\* C5's case: wrap() has returned the failure of its computation and the
\* store still holds the undecodable bytes it held.
C5_Witness ==
    \E p \in Callers :
        /\ pc[p] = "idle"
        /\ ret[p] = Returned("wrap", Err("Json"))
        /\ counter = 1
        /\ db[KeyX] = Some(JunkBytes)

\* C6: a wrap() that returns a computed value has stored it under K with the
\* expiry now + ttl in the step that returns; when the insert fails, wrap
\* returns the error, not the value, and nothing is stored.
C6_ComputedValueStoredBeforeReturn ==
    [][\A p \in Callers :
         (wrap_finish(p) /\ wrap[p].output.tag = "Ok")
         => IF wrap[p].output.v = Unserializable
            THEN /\ ret'[p] = Returned("wrap", Err("Cbor"))
                 /\ db' = db
            ELSE /\ ret'[p] = Returned("wrap", Ok(wrap[p].output.v))
                 /\ db'[wrap[p].key] # None
                 /\ from_slice(db'[wrap[p].key][1]) =
                        Some(StoredEntry(now + wrap[p].age, wrap[p].output.v))]_vars

\* C6's case: wrap() has returned the value its computation produced, and the
\* store holds it, written at this time.
C6_Witness ==
    \E p \in Callers :
        /\ pc[p] = "idle"
        /\ ret[p] = Returned("wrap", Ok(counter))
        /\ counter > 0
        /\ now > 0
        /\ lastWrite[KeyX] # None
        /\ Written(KeyX) = [value |-> counter, age |-> MaxAge, at |-> now]

\* C7: after insert(K, ttl, V) and the clock advancing past ttl, get(K)
\* resolves to Expired carrying V; delete_if_expired on an Expired reference
\* removes the entry and returns absence; get(K) on the removed key resolves
\* to Missing.
C7_ExpiredThenDeletedThenMissing ==
    [][\A p \in Callers :
         /\ (/\ get(p, RootCache, StrX)
             /\ lastWrite[KeyX] # None
             /\ now > Written(KeyX).at + Written(KeyX).age)
            => /\ ref'[p].state = "Expired"
               /\ ref'[p].key = KeyX
               /\ ref'[p].stored = Some(StoredEntry(
                      Written(KeyX).at + Written(KeyX).age, Written(KeyX).value))
         /\ (delete_if_expired(p) /\ ref[p].state = "Expired")
            => /\ db'[ref[p].key] = None
               /\ ret'[p] = Returned("delete_if_expired", Ok(None))
         /\ (get(p, RootCache, StrX) /\ db[KeyX] = None)
            => ref'[p].state = "Missing"]_vars

\* C7's case: the clock is past the expiry of the inserted value and the
\* caller holds the Expired reference that carries it.
C7_Witness ==
    \E p \in Callers :
        /\ pc[p] = "ref"
        /\ ref[p].state = "Expired"
        /\ lastWrite[KeyX] # None
        /\ Written(KeyX).age > 0
        /\ now > Written(KeyX).at + Written(KeyX).age
        /\ ref[p].stored = Some(StoredEntry(
               Written(KeyX).at + Written(KeyX).age, MaxValue))

\* The store holds bytes at k that are no CBOR entry at all.
Malformed(k) == db[k] \in {Some(JunkBytes), Some(TruncatedBytes(0))}

\* C9: with malformed bytes in the store at the key of K, get(K) and test(K)
\* both resolve to Missing and leave the store as it is.
C9_MalformedBytesAreMissing ==
    [][\A p \in Callers :
         ((get(p, RootCache, StrX) \/ test(p, RootCache, StrX)) /\ Malformed(KeyX))
         => /\ ref'[p].state = "Missing"
            /\ ref'[p].key = KeyX
            /\ db' = db]_vars

\* C9's case: the caller holds a Missing reference to a key at which the
\* store holds a cut-short entry.
C9_Witness ==
    \E p \in Callers :
        /\ pc[p] = "ref"
        /\ ref[p].state = "Missing"
        /\ ref[p].key = KeyX
        /\ db[KeyX] = Some(TruncatedBytes(0))

\* The expiry of what the store holds at k: that of the insert that wrote it,
\* or 0, the expiry of the entry with a foreign payload.
ExpiryAt(k) == IF lastWrite[k] # None THEN Written(k).at + Written(k).age ELSE 0

\* C10 as stated: test(K) resolves to Missing when the store has no entry for
\* K or its bytes do not decode, to Expired when expires_at <= now, to Fresh
\* otherwise.
C10_ExpiredAtExpiry ==
    [][\A p \in Callers :
         test(p, RootCache, StrX)
         => ref'[p].state =
                IF db[KeyX] = None \/ Malformed(KeyX) THEN "Missing"
                ELSE IF ExpiryAt(KeyX) <= now THEN "Expired"
                ELSE "Fresh"]_vars

\* C10 amended: test(K) resolves to Missing when the store has no entry for K
\* or its bytes do not decode, to Expired when expires_at < now, to Fresh
\* otherwise, so also at expires_at = now.
C10_ExpiredAfterExpiry ==
    [][\A p \in Callers :
         test(p, RootCache, StrX)
         => /\ ref'[p].state =
                   IF db[KeyX] = None \/ Malformed(KeyX) THEN "Missing"
                   ELSE IF ExpiryAt(KeyX) < now THEN "Expired"
                   ELSE "Fresh"
            /\ ref'[p].state # "Missing"
               => ref'[p].stored = Some(StoredEntry(ExpiryAt(KeyX), Unit))]_vars

\* C10's case: test() has resolved to Fresh an entry that expires at this
\* very time.
C10_Witness ==
    \E p \in Callers :
        /\ pc[p] = "ref"
        /\ ref[p].state = "Fresh"
        /\ ref[p].stored = Some(StoredEntry(now, Unit))
        /\ ExpiryAt(KeyX) = now
        /\ lastWrite[KeyX] # None
        /\ now > 0

\* A step of caller p made through the cache handle a: an insert, a step of
\* a wrap() call, or delete_if_expired on a reference a lookup through a gave.
StepThrough(p, a) ==
    \/ /\ ret'[p].op = "insert"
       /\ \E age \in Ages, v \in Values : insert(p, a, StrX, age, v)
    \/ /\ pc[p] = "idle"
       /\ \E age \in Ages : wrap_get(p, a, StrX, age)
    \/ wrap[p].self = a /\ wrap_future(p)
    \/ wrap[p].self = a /\ wrap_finish(p)
    \/ ref[p].cache = a /\ delete_if_expired(p)

\* C8: an insert, delete_if_expired or wrap through one cache handle (the root
\* cache or a namespaced view) changes neither what the store holds for the
\* same logical key under any other handle nor what get() through that other
\* handle resolves to.
C8_NamespacesDoNotInterfere ==
    [][\A b \in AllCaches :
         LET kb == key(b, StrX) IN
         \/ /\ db'[kb] = db[kb]
            /\ inner_get_of(b, kb, db'[kb], now') = inner_get_of(b, kb, db[kb], now)
         \/ \A p \in Callers : \A a \in AllCaches \ {b} : ~StepThrough(p, a)]_vars

\* C8's case: the two namespaces hold different entries for the same logical
\* key while the root cache holds none for it.
C8_Witness ==
    /\ db[key(namespaced(RootCache, StrA), StrX)] # None
    /\ db[key(namespaced(RootCache, StrAB), StrX)] # None
    /\ db[key(namespaced(RootCache, StrA), StrX)]
           # db[key(namespaced(RootCache, StrAB), StrX)]
    /\ db[KeyX] = None
    /\ \E p \in Callers : ret[p] = Returned("delete_if_expired", Ok(None))

\* The bytes b are an entry as the cache encodes one, not expired at time t.
KeptAt(b, t) ==
    \E e \in t..MaxTime :
        \/ b = ForeignBytes(e)
        \/ \E v \in 1..MaxValue : b = EntryBytes(e, v)

\* C11: Cache::load, no one else writing the store, runs cleanup() over all
\* that the store holds when it starts; when it returns the cache, the store
\* holds exactly the entries that decoded and were not expired at that start,
\* their bytes unchanged, and every other key is empty.
C11_CleanupKeepsFreshOnly ==
    [][\A p \in Callers :
         /\ load(p)
            => /\ scan'[p].now = now
               /\ \A k \in AllKeys :
                      IF db[k] = None
                      THEN \A i \in DOMAIN scan'[p].iter : scan'[p].iter[i][1] # k
                      ELSE \E i \in DOMAIN scan'[p].iter :
                              scan'[p].iter[i] = <<k, db[k][1]>>
         /\ load_return(p)
            => /\ pc'[p] = "idle"
               /\ \A k \in AllKeys :
                      \/ \E i \in DOMAIN scan[p].iter :
                            /\ scan[p].iter[i][1] = k
                            /\ KeptAt(scan[p].iter[i][2], scan[p].now)
                            /\ db'[k] = Some(scan[p].iter[i][2])
                      \/ /\ \A i \in DOMAIN scan[p].iter :
                               scan[p].iter[i][1] = k
                               => ~KeptAt(scan[p].iter[i][2], scan[p].now)
                         /\ db'[k] = None
         /\ (pc[p] # "idle" /\ pc'[p] = "idle") => load_return(p)]_vars

\* C11's case: cleanup() has run over a store that held an entry expiring at
\* its very `now`, an expired entry and bytes that are no CBOR, and the store
\* holds the first alone.
C11_Witness ==
    \E p \in Callers :
        /\ pc[p] = "cleanup"
        /\ scan[p].pos > Len(scan[p].iter)
        /\ scan[p].now > 0
        /\ \E i, j, l \in DOMAIN scan[p].iter :
              /\ scan[p].iter[i][2] = EntryBytes(scan[p].now, 1)
              /\ scan[p].iter[j][2] = EntryBytes(0, 1)
              /\ scan[p].iter[l][2] = JunkBytes
              /\ db[scan[p].iter[i][1]] = Some(EntryBytes(scan[p].now, 1))
              /\ \A k \in AllKeys \ {scan[p].iter[i][1]} : db[k] = None

\* C12: delete_if_expired() on a Fresh reference returns the value the
\* reference carries (the payload of the stored entry, or () from test) and
\* leaves the store as it is; on an Expired reference it empties the
\* referenced key and returns absence; on a Missing reference it returns
\* absence and leaves the store as it is, whatever bytes the key holds. No
\* other key changes in any case.
C12_DeleteIfExpiredCases ==
    [][\A p \in Callers :
         delete_if_expired(p)
         => /\ ref[p].state = "Fresh"
               => /\ db' = db
                  /\ \E e \in 0..MaxTime :
                        \/ /\ db[ref[p].key] = Some(ForeignBytes(e))
                           /\ ret'[p] = Returned("delete_if_expired", Ok(Some(Unit)))
                        \/ \E v \in 1..MaxValue :
                              /\ db[ref[p].key] = Some(EntryBytes(e, v))
                              /\ ret'[p] \in
                                     {Returned("delete_if_expired", Ok(Some(v))),
                                      Returned("delete_if_expired", Ok(Some(Unit)))}
            /\ ref[p].state = "Expired"
               => /\ db[ref[p].key] # None
                  /\ db'[ref[p].key] = None
                  /\ ret'[p] = Returned("delete_if_expired", Ok(None))
            /\ ref[p].state = "Missing"
               => /\ db' = db
                  /\ ret'[p] = Returned("delete_if_expired", Ok(None))
            /\ \A k \in AllKeys \ {ref[p].key} : db'[k] = db[k]
            /\ pc'[p] = "idle"]_vars

\* C12's case: delete_if_expired() on a reference that was Fresh when taken
\* has returned the value and deleted nothing, though the entry has expired
\* since; the other keys hold an expired entry and bytes that are no CBOR.
C12_Witness ==
    \E p \in Callers :
        /\ pc[p] = "idle"
        /\ ret[p] = Returned("delete_if_expired", Ok(Some(1)))
        /\ db[KeyX] = Some(EntryBytes(0, 1))
        /\ db[key(namespaced(RootCache, StrA), StrX)] = Some(EntryBytes(0, 1))
        /\ db[key(namespaced(RootCache, StrAB), StrX)] = Some(JunkBytes)
        /\ db[RawKey] # None
        /\ now > 0

\* The key of logical key "x" under the handle c, as list_json() shows it.
ListedKey(c) ==
    JsonArray(<<IF c.ns = None THEN JsonNull ELSE JsonString(c.ns[1]),
                JsonString(StrX)>>)

\* The records list_json() owes for the key of "x" under c: one when the
\* store holds an encoded entry there (its payload a number or, foreign, a
\* string), expired or not; none otherwise.
ListedAt(c) ==
    LET held == db[key(c, StrX)]
        numbers == {ev \in (0..MaxTime) \X (1..MaxValue) :
                        held = Some(EntryBytes(ev[1], ev[2]))}
        strings == {e \in 0..MaxTime : held = Some(ForeignBytes(e))}
    IN IF numbers # {}
       THEN LET ev == CHOOSE x \in numbers : TRUE
            IN <<JsonEntry(ListedKey(c), StoredEntry(ev[1], JsonNumber(ev[2])))>>
       ELSE IF strings # {}
       THEN LET e == CHOOSE x \in strings : TRUE
            IN <<JsonEntry(ListedKey(c), StoredEntry(e, JsonString(StrX)))>>
       ELSE <<>>

\* C13: list_json() returns Ok with exactly one record per store entry whose
\* key and value both decode, in the order of the keys' bytes (namespace "a",
\* namespace "ab", root cache), with nothing for an entry whose key or value
\* does not decode, and leaves the store as it is.
C13_ListJsonSkipsBadEntries ==
    [][\A p \in Callers, c \in AllCaches :
         list_json(p, c)
         => /\ ret'[p] = Returned("list_json",
                   Ok(ListedAt(namespaced(RootCache, StrA))
                      \o ListedAt(namespaced(RootCache, StrAB))
                      \o ListedAt(RootCache)))
            /\ db' = db]_vars

\* C13's case: list_json() has returned two records, for an expired entry
\* and an entry with a string payload, in key order, from a store that also
\* holds a cut-short entry and an entry under a key that is no CBOR.
C13_Witness ==
    \E p \in Callers :
        /\ ret[p].op = "list_json"
        /\ ret[p].res.tag = "Ok"
        /\ Len(ret[p].res.v) = 2
        /\ ret[p].res.v[1].key = ListedKey(namespaced(RootCache, StrA))
        /\ ret[p].res.v[1].stored = StoredEntry(0, JsonNumber(1))
        /\ ret[p].res.v[2].key = ListedKey(RootCache)
        /\ ret[p].res.v[2].stored = StoredEntry(0, JsonString(StrX))
        /\ db[key(namespaced(RootCache, StrA), StrX)] = Some(EntryBytes(0, 1))
        /\ db[key(namespaced(RootCache, StrAB), StrX)] = Some(TruncatedBytes(0))
        /\ db[KeyX] = Some(ForeignBytes(0))
        /\ db[RawKey] = Some(EntryBytes(MaxTime, 1))
        /\ now > 0

\* The handle whose own namespace is ns.
HandleOf(ns) == CHOOSE h \in AllCaches : h.ns = ns

\* C14: delete_with_ns(ns, K) through any handle, whatever that handle's own
\* namespace, empties the key that insert(K, ...) through the handle of
\* namespace ns writes (the root cache for None), get(K) through that handle
\* then resolves to Missing, and the entries of K under every other handle
\* are what they were.
C14_DeleteWithNsAcrossHandles ==
    [][\A p \in Callers, c \in AllCaches, ns \in NsArgs :
         delete_with_ns(p, c, ns, StrX)
         => LET h == HandleOf(ns) IN
            /\ db'[key(h, StrX)] = None
            /\ lastWrite'[key(h, StrX)] = None
            /\ inner_get_of(h, key(h, StrX), db'[key(h, StrX)], now').state = "Missing"
            /\ \A o \in AllCaches \ {h} :
                  /\ db'[key(o, StrX)] = db[key(o, StrX)]
                  /\ lastWrite'[key(o, StrX)] = lastWrite[key(o, StrX)]
            /\ ret'[p] = Returned("delete_with_ns", Ok(Unit))]_vars

\* C14's case: the caller's last call was a delete_with_ns that left the
\* entries insert() wrote through the root cache and through namespace "ab"
\* where they were, and namespace "a" holds nothing for the key.
C14_Witness ==
    \E p \in Callers :
        /\ ret[p] = Returned("delete_with_ns", Ok(Unit))
        /\ db[key(namespaced(RootCache, StrA), StrX)] = None
        /\ lastWrite[KeyX] # None
        /\ lastWrite[key(namespaced(RootCache, StrAB), StrX)] # None
        /\ Written(KeyX).value # Written(key(namespaced(RootCache, StrAB), StrX)).value
        /\ now > 0

\* C15: with the executor fair and every computation that is not dropped
\* resolving, every wrap() call that is under way is eventually over (it has
\* returned, or its own caller has dropped it), whatever becomes of the other
\* callers' computations on the same key.
C15_WrapEventuallyReturns ==
    \A p \in 1..NumCallers : (pc[p] \in {"await", "ready"}) ~> (pc[p] = "idle")

\* C15's case: one caller has dropped its call on the cold key, and another
\* caller's call on the same key, under way at the same time or later, has
\* returned the value it computed.
C15_Witness ==
    \E p, q \in Callers :
        /\ pc[q] = "idle"
        /\ ret[q] = Returned("wrap_dropped", Ok(Unit))
        /\ pc[p] = "idle"
        /\ ret[p] = Returned("wrap", Ok(1))
        /\ counter = 1

\* The key holds no entry that is fresh now: nothing, or an entry wrap()
\* stored that has expired since.
NotFresh(k) == db[k] = None \/ (lastWrite[k] # None /\ ExpiryAt(k) < now)

\* C16: a wrap(K, ...) call that returns the failure of its computation
\* leaves K as it was, so not Fresh; a wrap(K, ...) call made after it, K
\* still not being Fresh, does not return in its lookup: it goes on to its
\* own computation, which runs (the counter moves), and when that
\* computation yields a value the call returns it and the store holds it
\* under K with the expiry now + ttl.
C16_FailureIsNotCached ==
    [][\A p \in Callers :
         /\ (wrap_finish(p) /\ wrap[p].output.tag = "Err")
            => /\ db'[KeyX] = db[KeyX]
               /\ NotFresh(KeyX) => NotFresh(KeyX)'
         /\ (/\ \E age \in Ages : wrap_get(p, RootCache, StrX, age)
             /\ ret[p].op = "wrap"
             /\ ret[p].res.tag = "Err"
             /\ NotFresh(KeyX))
            => /\ pc'[p] = "await"
               /\ wrap'[p].key = KeyX
               /\ ret'[p] = NoRet
         /\ wrap_future(p)
            => /\ counter' = counter + 1
               /\ wrap'[p].output \in FutureOutputs(counter + 1)
         /\ (wrap_finish(p) /\ wrap[p].output \in {Ok(v) : v \in 1..MaxCounter})
            => /\ ret'[p] = Returned("wrap", wrap[p].output)
               /\ db'[KeyX] = Some(EntryBytes(now + wrap[p].age, wrap[p].output.v))]_vars

\* C16's case: the second computation on the key has run, its call has
\* returned its value and the store holds it, all at time 0: the first call,
\* also at time 0, stored nothing, so it had failed.
C16_Witness ==
    \E p \in Callers :
        /\ pc[p] = "idle"
        /\ now = 0
        /\ counter = 2
        /\ ret[p] = Returned("wrap", Ok(2))
        /\ db[KeyX] = Some(EntryBytes(MaxAge, 2))

\* The store holds at k an entry whose expiry decodes and whose payload, a
\* text string, is no T.
Foreign(k) == \E e \in 0..MaxTime : db[k] = Some(ForeignBytes(e))
ForeignExpiry(k) == CHOOSE e \in 0..MaxTime : db[k] = Some(ForeignBytes(e))

\* C17: with such an entry stored under K, get::<T>(K) resolves to Missing
\* and returns no error; test(K) resolves to Expired when the entry's expiry
\* is before now and to Fresh otherwise, carrying that expiry; wrap(K, ...)
\* does not return from its lookup but goes on to its computation, and when
\* that yields a value the entry is overwritten with it. No lookup changes
\* the store.
C17_ForeignPayload ==
    [][\A p \in Callers :
         /\ (get(p, RootCache, StrX) /\ Foreign(KeyX))
            => /\ ref'[p] = EntryRef_missing(RootCache, KeyX)
               /\ db' = db
         /\ (test(p, RootCache, StrX) /\ Foreign(KeyX))
            => /\ ref'[p].state =
                      IF ForeignExpiry(KeyX) < now THEN "Expired" ELSE "Fresh"
               /\ ref'[p].stored = Some(StoredEntry(ForeignExpiry(KeyX), Unit))
               /\ db' = db
         /\ ((\E age \in Ages : wrap_get(p, RootCache, StrX, age)) /\ Foreign(KeyX))
            => /\ pc'[p] = "await"
               /\ wrap'[p].key = KeyX
               /\ db' = db
         /\ (/\ wrap_finish(p)
             /\ Foreign(wrap[p].key)
             /\ wrap[p].output \in {Ok(v) : v \in 1..MaxCounter})
            => /\ db'[wrap[p].key] =
                      Some(EntryBytes(now + wrap[p].age, wrap[p].output.v))
               /\ ret'[p] = Returned("wrap", wrap[p].output)]_vars

\* C17's case: the computation of a wrap() call has run and yielded a value
\* while the store holds, under the call's key, an entry with a foreign
\* payload that expired before now.
C17_Witness ==
    \E p \in Callers :
        /\ pc[p] = "ready"
        /\ wrap[p].key = KeyX
        /\ wrap[p].output = Ok(1)
        /\ db[KeyX] = Some(ForeignBytes(0))
        /\ now > 0

\* C18: an insert(K, ttl2, V2) on a key that holds what an earlier insert
\* wrote leaves under K exactly the encoding of (now + ttl2, V2), so that
\* get(K) at any time t resolves by now + ttl2 alone and carries V2; and a
\* get(K) with no write since resolves so.
C18_InsertReplacesWholesale ==
    [][\A p \in Callers :
         /\ \A age2 \in Ages, v2 \in 1..MaxValue :
               (insert(p, RootCache, StrX, age2, v2) /\ lastWrite[KeyX] # None)
               => /\ db'[KeyX] = Some(EntryBytes(now + age2, v2))
                  /\ ret'[p] = Returned("insert", Ok(Unit))
                  /\ \A t \in 0..MaxTime :
                        inner_get_of(RootCache, KeyX, db'[KeyX], t) =
                            IF now + age2 < t
                            THEN EntryRef_expired(RootCache, KeyX,
                                                  StoredEntry(now + age2, v2))
                            ELSE EntryRef_fresh(RootCache, KeyX,
                                                StoredEntry(now + age2, v2))
         /\ (get(p, RootCache, StrX) /\ lastWrite[KeyX] # None)
            => ref'[p] =
                   IF ExpiryAt(KeyX) < now
                   THEN EntryRef_expired(RootCache, KeyX,
                            StoredEntry(ExpiryAt(KeyX), Written(KeyX).value))
                   ELSE EntryRef_fresh(RootCache, KeyX,
                            StoredEntry(ExpiryAt(KeyX), Written(KeyX).value))]_vars

\* C18's case: one caller still holds the reference to the entry (V1, a
\* later expiry) it looked up, the other has since inserted V2 with ttl 0,
\* and the store holds V2 with the earlier expiry.
C18_Witness ==
    \E p, q \in Callers :
        /\ pc[p] = "ref"
        /\ ref[p].state = "Fresh"
        /\ ref[p].stored[1].value = 1
        /\ ret[q] = Returned("insert", Ok(Unit))
        /\ lastWrite[KeyX] # None
        /\ Written(KeyX).value = 2
        /\ Written(KeyX).age = 0
        /\ ref[p].stored[1].expires_at > ExpiryAt(KeyX)
        /\ db[KeyX] = Some(EntryBytes(ExpiryAt(KeyX), 2))

\* C19: delete_if_expired() leaves alone an entry that is fresh now: when
\* the referenced key holds an entry an insert wrote after the lookup and
\* that has not expired, it holds the same entry after the call.
C19_DeleteIfExpiredKeepsFresh ==
    [][\A p \in Callers :
         (/\ delete_if_expired(p)
          /\ lastWrite[ref[p].key] # None
          /\ ExpiryAt(ref[p].key) >= now)
         => db'[ref[p].key] = db[ref[p].key]]_vars

\* C20: a turn of cleanup()'s loop leaves alone an entry that is fresh now:
\* when the key it has come to holds an entry an insert wrote and that has
\* not expired, the key holds the same entry after the turn.
C20_CleanupKeepsFreshInsert ==
    [][\A p \in Callers :
         (/\ cleanup(p)
          /\ lastWrite[scan[p].iter[scan[p].pos][1]] # None
          /\ ExpiryAt(scan[p].iter[scan[p].pos][1]) >= now)
         => db'[scan[p].iter[scan[p].pos][1]] = db[scan[p].iter[scan[p].pos][1]]]_vars

====
